---- MODULE Spec2Model ----
(***************************************************************************)
(* Serial-Studio: the framing/decoding engine of serialparser.py           *)
(* (class SerialParser), the wire layout produced by send.py, and the      *)
(* call discipline of serialstudio.py (update_plot, paramParserChanged).   *)
(*                                                                         *)
(* Bytes are integers 0..255.  A Python exception is recorded in exc.      *)
(* Floating-point rates are modelled as exact fractions <<num, den>>.      *)
(***************************************************************************)
EXTENDS Integers, Sequences, FiniteSets, TLC

(***************************************************************************)
(* Bounds of the model.                                                    *)
(***************************************************************************)
MaxGarbage == 2      \* longest arbitrary prefix put on the wire
MaxFrames == 2       \* most frames the device puts on the wire in Spec
MaxTime == 3         \* largest clock reading, in seconds
MaxReconf == 1       \* most setParserScheme calls after construction
MaxLiveWire == 4     \* capacity of the serial link in LiveSpec, in bytes

(***************************************************************************)
(* Endianness and DataType (serialparser.py 10-36).                        *)
(***************************************************************************)
LITTLE == 0
BIG == 1
INT8 == 0
INT16 == 2
INT32 == 4

lDataSize == <<1, 1, 2, 2, 4, 4, 8, 8, 4, 8>>
lTypeChar == <<"b", "B", "h", "H", "l", "L", "q", "Q", "f", "d">>
lEndianChar == <<"<", ">">>

\* Python list indexing: indices -len..len-1 are accepted, anything else
\* raises IndexError.
PyIndexOk(lst, i) == i >= 0 - Len(lst) /\ i < Len(lst)
PyIndex(lst, i) == IF i >= 0 THEN lst[i + 1] ELSE lst[Len(lst) + i + 1]

getSize(aDataType) == PyIndex(lDataSize, aDataType)
getParserChar(aDataType) == PyIndex(lTypeChar, aDataType)
getEndianChar(aEndianness) == PyIndex(lEndianChar, aEndianness)

(***************************************************************************)
(* struct.pack / struct.unpack in standard mode ('<' or '>' prefix).       *)
(***************************************************************************)
CharSize(c) ==
  CASE c \in {"b", "B"} -> 1
    [] c \in {"h", "H"} -> 2
    [] c \in {"l", "L", "f"} -> 4
    [] c \in {"q", "Q", "d"} -> 8

CharSigned(c) == c \in {"b", "h", "l", "q"}
CharFloat(c) == c \in {"f", "d"}

RECURSIVE SumSizes(_)
SumSizes(chars) ==
  IF chars = <<>> THEN 0 ELSE CharSize(Head(chars)) + SumSizes(Tail(chars))

calcsizeAtLeastOne(fmt) == IF SumSizes(Tail(fmt)) = 0 THEN 1 ELSE SumSizes(Tail(fmt))

\* struct.calcsize of a format string: the prefix character takes no bytes.
calcsize(fmt) == SumSizes(Tail(fmt))

Reverse(s) == [i \in 1..Len(s) |-> s[Len(s) + 1 - i]]

\* Little-endian bytes of the integer v in w bytes (two's complement).
RECURSIVE PackLE(_, _)
PackLE(v, w) ==
  IF w = 0 THEN <<>> ELSE <<v % 256>> \o PackLE(v \div 256, w - 1)

PackValue(v, c, e) ==
  IF e = "<" THEN PackLE(v, CharSize(c)) ELSE Reverse(PackLE(v, CharSize(c)))

\* The unsigned value of big-endian bytes, most significant first.
RECURSIVE HornerBE(_, _)
HornerBE(acc, bs) ==
  IF bs = <<>> THEN acc ELSE HornerBE(acc * 256 + Head(bs), Tail(bs))

\* One value of struct.unpack: the top byte carries the sign of a signed
\* type; a float is kept as its bit pattern, most significant byte first.
UnpackValue(bs, c, e) ==
  LET be == IF e = "<" THEN Reverse(bs) ELSE bs
      top == IF CharSigned(c) /\ Head(be) >= 128 THEN Head(be) - 256 ELSE Head(be)
  IN IF CharFloat(c) THEN <<c, be>> ELSE HornerBE(top, Tail(be))

RECURSIVE UnpackChars(_, _, _)
UnpackChars(chars, bs, e) ==
  IF chars = <<>> THEN <<>>
  ELSE LET w == CharSize(Head(chars))
       IN <<UnpackValue(SubSeq(bs, 1, w), Head(chars), e)>>
            \o UnpackChars(Tail(chars), SubSeq(bs, w + 1, Len(bs)), e)

\* struct.unpack(fmt, bs); the caller checks Len(bs) = calcsize(fmt) first
\* (struct.error otherwise).
unpack(fmt, bs) == UnpackChars(Tail(fmt), bs, Head(fmt))

RECURSIVE PackChars(_, _, _)
PackChars(chars, vals, e) ==
  IF chars = <<>> THEN <<>>
  ELSE PackValue(Head(vals), Head(chars), e) \o PackChars(Tail(chars), Tail(vals), e)

\* struct.pack(fmt, *vals)
pack(fmt, vals) == PackChars(Tail(fmt), vals, Head(fmt))

(***************************************************************************)
(* The frame scheme derived by setParserScheme (serialparser.py 61-73).    *)
(* A scheme argument is a record                                           *)
(*   [start, dataType, numCh, endian, end].                                *)
(***************************************************************************)
payloadSizeOf(aNumChannel, aDataType) == aNumChannel * getSize(aDataType)

packetSizeNoEnd(aHeaderSize, aPayloadSize, aEndSequence) == aHeaderSize + aPayloadSize

packetSizeOf(aHeaderSize, aPayloadSize, aEndSequence) ==
  aHeaderSize + aPayloadSize + Len(aEndSequence)

parserStringOf(aEndianness, aNumChannel, aDataType) ==
  <<getEndianChar(aEndianness)>> \o [i \in 1..aNumChannel |-> getParserChar(aDataType)]

\* The wire layout of one frame (spec section 6; send.py 60 for the
\* reference layout '<BBlll'): start marker, packed values, end marker.
EncodeFrame(a, vals) ==
  a.start \o pack(parserStringOf(a.endian, a.numCh, a.dataType), vals) \o a.end

RECURSIVE EncodeFrames(_, _)
EncodeFrames(a, fs) ==
  IF fs = <<>> THEN <<>> ELSE EncodeFrame(a, Head(fs)) \o EncodeFrames(a, Tail(fs))

(***************************************************************************)
(* Python sequence helpers.                                                *)
(***************************************************************************)
\* s[lo:hi] for 0 <= lo, 0 <= hi: the slice is clamped to the sequence.
PySlice(s, lo, hi) ==
  LET h == IF hi > Len(s) THEN Len(s) ELSE hi
  IN IF lo >= h THEN <<>> ELSE SubSeq(s, lo + 1, h)

\* s[lo:]
PySliceFrom(s, lo) == PySlice(s, lo, Len(s))

\* The marker loops of parse (serialparser.py 96-99 and 108-111): compare
\* marker[i] with buf[i + off] for i = 0, 1, ... and stop at the first
\* difference; reading past the end of buf raises IndexError.
MarkerCheckProbing(buf, marker, off) ==
  LET bad == {i \in 0..(Len(marker) - 1) :
                i + off >= Len(buf) \/ buf[i + off + 1] # marker[i + 1]}
      first == CHOOSE i \in bad : \A j \in bad : i <= j
  IN IF off >= Len(buf) THEN "mismatch"
     ELSE IF bad = {} THEN "match"
     ELSE IF first + off >= Len(buf) THEN "IndexError" ELSE "mismatch"

MarkerCheck(buf, marker, off) ==
  LET bad == {i \in 0..(Len(marker) - 1) :
                i + off >= Len(buf) \/ buf[i + off + 1] # marker[i + 1]}
      first == CHOOSE i \in bad : \A j \in bad : i <= j
  IN IF bad = {} THEN "match"
     ELSE IF first + off >= Len(buf) THEN "IndexError" ELSE "mismatch"

\* list(map(list, zip(*parsedPackets))) (serialparser.py 143): zip stops at
\* the shortest argument and yields nothing when it has no argument.
RECURSIVE MinLen(_)
MinLen(pkts) ==
  IF Len(pkts) = 1 THEN Len(pkts[1])
  ELSE LET m == MinLen(Tail(pkts))
       IN IF Len(pkts[1]) < m THEN Len(pkts[1]) ELSE m

TransposeFrameMajor(pkts) == pkts
TransposeFirstFrame(pkts) ==
  IF pkts = <<>> THEN <<>> ELSE [c \in 1..Len(pkts[1]) |-> <<pkts[1][c]>>]
Transpose(pkts) ==
  IF pkts = <<>> THEN <<>>
  ELSE [c \in 1..MinLen(pkts) |-> [k \in 1..Len(pkts) |-> pkts[k][c]]]

(***************************************************************************)
(* Exact fractions <<num, den>> for the smoothed rates.                    *)
(***************************************************************************)
RECURSIVE Gcd(_, _)
Gcd(a, b) == IF b = 0 THEN a ELSE Gcd(b, a % b)

Frac(n, d) == LET g == Gcd(n, d) IN IF g = 0 THEN <<0, 1>> ELSE <<n \div g, d \div g>>

SmoothSwapped(rate, count, timeDelta) ==
  Frac(7 * rate[1] * timeDelta + 3 * count * rate[2], 10 * rate[2] * timeDelta)

\* rate * 0.3 + (count / timeDelta) * 0.7  (serialparser.py 135, 137)
Smooth(rate, count, timeDelta) ==
  Frac(3 * rate[1] * timeDelta + 7 * count * rate[2], 10 * rate[2] * timeDelta)

(***************************************************************************)
(* State.                                                                  *)
(***************************************************************************)
VARIABLES
  \* SerialParser fields (serialparser.py 46-73)
  buffer, dataType, numChannels, startSequence, endSequence, endianness,
  payloadSize, headerSize, packetSize, parserString,
  packetRate, packetCount, startTime, parserErrCount, parserErrRate,
  \* the call in progress: position, parse's local list, the value it
  \* returned last, the exception the last call raised
  pc, parsedPackets, ret, exc,
  \* the serial link: bytes written by the device and not yet read, the
  \* device's sample index (send.py 44), and what the device sends
  wire, index, tx,
  \* history: the frames decoded and the bytes dropped since the last rate
  \* update (winFrames, winErrs); the bytes given to the active scheme
  \* (those pending when it became active, then those fed) and what it made
  \* of them; the call in progress; the number of reconfigurations
  hist, call, reconfs,
  \* the application: its configuration objects (serialstudio.py 63, 140)
  \* and the result of the last query it made of the parser
  gui, got

schemeVars == <<dataType, numChannels, startSequence, endSequence, endianness,
                payloadSize, headerSize, packetSize, parserString>>
rateVars == <<packetRate, packetCount, startTime, parserErrCount, parserErrRate>>
callVars == <<pc, parsedPackets, ret, exc>>
linkVars == <<wire, index, tx>>
appVars == <<gui, got>>
vars == <<buffer, schemeVars, rateVars, callVars, linkVars, hist, call, reconfs, appVars>>

(***************************************************************************)
(* The schemes and inputs of the model.                                    *)
(***************************************************************************)
Scheme(s, t, n, e, z) == [start |-> s, dataType |-> t, numCh |-> n, endian |-> e, end |-> z]

\* serialstudio.py 71-77: the built-in parser parameters
SchemeRef == Scheme(<<170, 187>>, INT32, 3, LITTLE, <<>>)
SchemeA == Scheme(<<170>>, INT8, 1, LITTLE, <<187>>)
SchemeC == Scheme(<<170>>, INT16, 1, BIG, <<>>)
SchemeL == Scheme(<<170>>, INT8, 2, LITTLE, <<>>)
\* serialstudio.py 109-111: the GUI accepts 0 channels and empty markers
SchemeM == Scheme(<<170, 187>>, INT8, 1, LITTLE, <<>>)
SchemeZ == Scheme(<<170>>, INT8, 0, LITTLE, <<>>)
SchemeD == Scheme(<<>>, INT8, 0, LITTLE, <<>>)

GarbageBytes == {0, 170}

SeqsUpTo(S, n) == UNION {[1..k -> S] : k \in 0..n}

FrameSamples(a) ==
  CASE a = SchemeRef -> {<<-1, 1, 100>>, <<2, -2, 200>>}
    [] a = SchemeA -> {<<1>>, <<-86>>}
    [] a = SchemeC -> {<<-1>>, <<426>>}
    [] a = SchemeL -> {<<-86, 1>>, <<2, -2>>}
    [] OTHER -> {<<>>}

Scenario(a, g, fs) == [scheme |-> a, prefix |-> g, frames |-> fs]

GenScenarios(a) ==
  {Scenario(a, g, fs) : g \in SeqsUpTo(GarbageBytes, MaxGarbage),
                        fs \in SeqsUpTo(FrameSamples(a), MaxFrames)}

\* The concrete scenario of the reference layout: one or two frames, with
\* or without one leading zero byte.
RefScenarios ==
  {Scenario(SchemeRef, g, fs) : g \in {<<>>, <<0>>},
                                fs \in {<<<<-1, 1, 100>>>>,
                                        <<<<-1, 1, 100>>, <<2, -2, 200>>>>}}

Scenarios ==
  GenScenarios(SchemeA) \cup GenScenarios(SchemeC) \cup GenScenarios(SchemeZ)
    \cup GenScenarios(SchemeD) \cup RefScenarios

\* What paramParserChanged may hand to setParserScheme; the last two carry
\* data-type tags outside 0..9 (as a hand-edited configuration file can).
ReconfArgs ==
  {SchemeRef, SchemeZ, SchemeD,
   Scheme(<<187>>, 10, 2, BIG, <<>>),
   Scheme(<<170>>, -1, 1, LITTLE, <<>>)}

(***************************************************************************)
(* Construction (serialparser.py 39-53).                                   *)
(***************************************************************************)
Constructed(a) ==
  /\ buffer = <<>>
  /\ dataType = a.dataType
  /\ numChannels = a.numCh
  /\ startSequence = a.start
  /\ endSequence = a.end
  /\ endianness = a.endian
  /\ payloadSize = payloadSizeOf(a.numCh, a.dataType)
  /\ headerSize = Len(a.start)
  /\ packetSize = packetSizeOf(Len(a.start), payloadSizeOf(a.numCh, a.dataType), a.end)
  /\ parserString = parserStringOf(a.endian, a.numCh, a.dataType)
  /\ packetRate = <<0, 1>>
  /\ packetCount = 0
  /\ startTime = 0
  /\ parserErrCount = 0
  /\ parserErrRate = <<0, 1>>
  /\ pc = "idle"
  /\ parsedPackets = <<>>
  /\ ret = <<>>
  /\ exc = "none"

\* serialstudio.py 63-93 and 140: the class attribute parameters is one
\* dictionary object, here "class", and __init__ makes defaultParams a
\* second name of that same object.  Of the dictionary the parser section
\* is kept, as a scheme.
GuiConstructed(a) ==
  [parameters |-> "class", defaultParams |-> "class", heap |-> [r \in {"class"} |-> a],
   \* what the class body wrote, for reference
   builtin |-> a]

NoQuery == [op |-> "none", val |-> <<>>, exc |-> "none"]

NoCall == [made |-> FALSE, buf |-> <<>>, data |-> <<>>, errs |-> 0, errCount0 |-> 0]

\* The device has written its whole stream: an arbitrary prefix followed
\* by back-to-back frames in the layout the decoder was constructed with.
Init ==
  \E sc \in Scenarios :
    /\ Constructed(sc.scheme)
    /\ tx = sc
    /\ wire = sc.prefix \o EncodeFrames(sc.scheme, sc.frames)
    /\ index = 0
    /\ hist = [on |-> TRUE, parsed |-> FALSE, stream |-> <<>>, frames |-> <<>>, errs |-> 0, winFrames |-> 0, winErrs |-> 0]
    /\ call = NoCall
    /\ gui = GuiConstructed(sc.scheme)
    /\ got = NoQuery
    /\ reconfs = 0

(***************************************************************************)
(* setParserScheme (serialparser.py 55-73), called by paramParserChanged   *)
(* (serialstudio.py 468-473) between two timer callbacks.                  *)
(***************************************************************************)
SetParserSchemeFields(a) ==
  /\ pc = "idle"
  /\ reconfs < MaxReconf
  \* 61-65
  /\ dataType' = a.dataType
  /\ numChannels' = a.numCh
  /\ startSequence' = a.start
  /\ endSequence' = a.end
  /\ endianness' = a.endian
  /\ IF ~PyIndexOk(lDataSize, a.dataType)
       THEN \* 67: getSize raises, the derived fields keep their old values
            /\ exc' = "IndexError"
            /\ UNCHANGED <<payloadSize, headerSize, packetSize, parserString>>
       ELSE \* 67-73
            /\ exc' = "none"
            /\ payloadSize' = payloadSizeOf(a.numCh, a.dataType)
            /\ headerSize' = Len(a.start)
            /\ packetSize' = packetSizeOf(Len(a.start),
                                          payloadSizeOf(a.numCh, a.dataType), a.end)
            /\ parserString' = parserStringOf(a.endian, a.numCh, a.dataType)
  /\ reconfs' = reconfs + 1
  /\ hist' = IF hist.on
               THEN [hist EXCEPT !.parsed = FALSE, !.stream = buffer, !.frames = <<>>,
                                 !.errs = 0]
               ELSE hist
  /\ UNCHANGED <<rateVars, pc, parsedPackets, ret, linkVars, call>>

\* setParserScheme does not touch self.buffer.
SetParserSchemeClearing(a) == SetParserSchemeFields(a) /\ buffer' = <<>>
SetParserScheme(a) == SetParserSchemeFields(a) /\ buffer' = buffer

(***************************************************************************)
(* parse (serialparser.py 89-144), called by update_plot                   *)
(* (serialstudio.py 559-577) with the bytes read from the port.            *)
(***************************************************************************)
\* 91: self.buffer.extend(data)
ExtendReplacing(buf, data) == data
Extend(buf, data) == buf \o data

\* 93: while len(self.buffer) >= self.packetSize
LoopCondAny(buf, pktSize) == Len(buf) >= 1
LoopCondStrict(buf, pktSize) == Len(buf) > pktSize
LoopCond(buf, pktSize) == Len(buf) >= pktSize

\* 120: self.buffer[self.headerSize:self.headerSize + self.payloadSize]
ByteRangeFromZero(buf, hSize, pSize) == PySlice(buf, 0, pSize)
ByteRange(buf, hSize, pSize) == PySlice(buf, hSize, hSize + pSize)

\* 125: self.buffer = self.buffer[self.packetSize:]
RemovePacketAll(buf, pktSize) == <<>>
RemovePacketShort(buf, pktSize) == PySliceFrom(buf, IF pktSize > 0 THEN pktSize - 1 ELSE 0)
RemovePacket(buf, pktSize) == PySliceFrom(buf, pktSize)

\* One iteration of the while loop, 94-125, on the buffer buf with at least
\* packetSize bytes: what happens and the buffer it leaves.
IterateSkipMarker(buf, startSeq, endSeq, hSize, pSize, pktSize, fmt) ==
  LET s == MarkerCheck(buf, startSeq, 0)
      e == MarkerCheck(buf, endSeq, hSize + pSize)
      byteRange == ByteRange(buf, hSize, pSize)
  IN CASE s = "IndexError" -> [kind |-> "IndexError", buf |-> buf, frame |-> <<>>]
       [] s = "mismatch" ->
            [kind |-> "drop", buf |-> PySliceFrom(buf, IF hSize > 1 THEN hSize ELSE 1),
             frame |-> <<>>]
       [] s = "match" /\ e = "IndexError" ->
            [kind |-> "IndexError", buf |-> buf, frame |-> <<>>]
       [] s = "match" /\ e = "mismatch" ->
            [kind |-> "drop", buf |-> Tail(buf), frame |-> <<>>]
       [] s = "match" /\ e = "match" /\ Len(byteRange) # calcsize(fmt) ->
            [kind |-> "struct.error", buf |-> buf, frame |-> <<>>]
       [] OTHER ->
            [kind |-> "frame", buf |-> RemovePacket(buf, pktSize),
             frame |-> unpack(fmt, byteRange)]

IterateEndianMarker(buf, startSeq, endSeq, hSize, pSize, pktSize, fmt) ==
  LET s == MarkerCheck(buf, IF fmt[1] = ">" THEN Reverse(startSeq) ELSE startSeq, 0)
      e == MarkerCheck(buf, endSeq, hSize + pSize)
      byteRange == ByteRange(buf, hSize, pSize)
  IN CASE s = "IndexError" -> [kind |-> "IndexError", buf |-> buf, frame |-> <<>>]
       [] s = "mismatch" -> [kind |-> "drop", buf |-> Tail(buf), frame |-> <<>>]
       [] s = "match" /\ e = "IndexError" ->
            [kind |-> "IndexError", buf |-> buf, frame |-> <<>>]
       [] s = "match" /\ e = "mismatch" ->
            [kind |-> "drop", buf |-> Tail(buf), frame |-> <<>>]
       [] s = "match" /\ e = "match" /\ Len(byteRange) # calcsize(fmt) ->
            [kind |-> "struct.error", buf |-> buf, frame |-> <<>>]
       [] OTHER ->
            [kind |-> "frame", buf |-> RemovePacket(buf, pktSize),
             frame |-> unpack(fmt, byteRange)]

IterateFirstByte(buf, startSeq, endSeq, hSize, pSize, pktSize, fmt) ==
  LET s == MarkerCheck(buf, PySlice(startSeq, 0, 1), 0)
      e == MarkerCheck(buf, endSeq, hSize + pSize)
      byteRange == ByteRange(buf, hSize, pSize)
  IN CASE s = "IndexError" -> [kind |-> "IndexError", buf |-> buf, frame |-> <<>>]
       [] s = "mismatch" -> [kind |-> "drop", buf |-> Tail(buf), frame |-> <<>>]
       [] s = "match" /\ e = "IndexError" ->
            [kind |-> "IndexError", buf |-> buf, frame |-> <<>>]
       [] s = "match" /\ e = "mismatch" ->
            [kind |-> "drop", buf |-> Tail(buf), frame |-> <<>>]
       [] s = "match" /\ e = "match" /\ Len(byteRange) # calcsize(fmt) ->
            [kind |-> "struct.error", buf |-> buf, frame |-> <<>>]
       [] OTHER ->
            [kind |-> "frame", buf |-> RemovePacket(buf, pktSize),
             frame |-> unpack(fmt, byteRange)]

IterateDropCandidate(buf, startSeq, endSeq, hSize, pSize, pktSize, fmt) ==
  LET s == MarkerCheck(buf, startSeq, 0)
      e == MarkerCheck(buf, endSeq, hSize + pSize)
      byteRange == ByteRange(buf, hSize, pSize)
  IN CASE s = "IndexError" -> [kind |-> "IndexError", buf |-> buf, frame |-> <<>>]
       [] s = "mismatch" -> [kind |-> "drop", buf |-> Tail(buf), frame |-> <<>>]
       [] s = "match" /\ e = "IndexError" ->
            [kind |-> "IndexError", buf |-> buf, frame |-> <<>>]
       [] s = "match" /\ e = "mismatch" ->
            [kind |-> "drop", buf |-> RemovePacket(buf, pktSize), frame |-> <<>>]
       [] s = "match" /\ e = "match" /\ Len(byteRange) # calcsize(fmt) ->
            [kind |-> "struct.error", buf |-> buf, frame |-> <<>>]
       [] OTHER ->
            [kind |-> "frame", buf |-> RemovePacket(buf, pktSize),
             frame |-> unpack(fmt, byteRange)]

Iterate(buf, startSeq, endSeq, hSize, pSize, pktSize, fmt) ==
  LET s == MarkerCheck(buf, startSeq, 0)
      e == MarkerCheck(buf, endSeq, hSize + pSize)
      byteRange == ByteRange(buf, hSize, pSize)
  IN CASE s = "IndexError" -> [kind |-> "IndexError", buf |-> buf, frame |-> <<>>]
       \* 101-105
       [] s = "mismatch" -> [kind |-> "drop", buf |-> Tail(buf), frame |-> <<>>]
       [] s = "match" /\ e = "IndexError" ->
            [kind |-> "IndexError", buf |-> buf, frame |-> <<>>]
       \* 113-117
       [] s = "match" /\ e = "mismatch" ->
            [kind |-> "drop", buf |-> Tail(buf), frame |-> <<>>]
       \* 121: struct.unpack needs exactly calcsize bytes
       [] s = "match" /\ e = "match" /\ Len(byteRange) # calcsize(fmt) ->
            [kind |-> "struct.error", buf |-> buf, frame |-> <<>>]
       \* 120-125
       [] OTHER ->
            [kind |-> "frame", buf |-> RemovePacket(buf, pktSize),
             frame |-> unpack(fmt, byteRange)]

IterateNow ==
  Iterate(buffer, startSequence, endSequence, headerSize, payloadSize, packetSize,
          parserString)

\* update_plot reads what has arrived, n bytes, and calls parse: 90-91.
Parse(n) ==
  /\ pc = "idle"
  /\ LET data == SubSeq(wire, 1, n)
     IN /\ buffer' = Extend(buffer, data)
        /\ wire' = SubSeq(wire, n + 1, Len(wire))
        /\ call' = [made |-> TRUE, buf |-> buffer, data |-> data, errs |-> 0,
                    errCount0 |-> parserErrCount]
        /\ hist' = IF hist.on
                     THEN [hist EXCEPT !.stream = @ \o data, !.parsed = TRUE]
                     ELSE hist
  /\ parsedPackets' = <<>>
  /\ ret' = <<>>
  /\ exc' = "none"
  /\ pc' = "loop"
  /\ UNCHANGED <<schemeVars, rateVars, index, tx, reconfs, appVars>>

\* 93-125: one iteration of the loop.  With packetSize = 0 the loop
\* condition never fails; the model follows it for MaxSpin iterations.
MaxSpin == 3

LoopStep(counted) ==
  /\ pc = "loop"
  /\ LoopCond(buffer, packetSize)
  /\ packetSize = 0 => Len(parsedPackets) < MaxSpin
  /\ LET r == IterateNow
     IN /\ buffer' = r.buf
        /\ CASE r.kind = "drop" ->
                  /\ parserErrCount' = IF counted THEN parserErrCount + 1
                                                   ELSE parserErrCount
                  /\ call' = [call EXCEPT !.errs = @ + 1]
                  /\ hist' = IF hist.on
                               THEN [hist EXCEPT !.errs = @ + 1, !.winErrs = @ + 1]
                               ELSE hist
                  /\ UNCHANGED <<parsedPackets, pc, exc>>
             [] r.kind = "frame" ->
                  /\ parsedPackets' = Append(parsedPackets, r.frame)
                  /\ hist' = IF hist.on
                               THEN [hist EXCEPT !.frames = Append(@, r.frame),
                                                 !.winFrames = @ + 1]
                               ELSE hist
                  /\ UNCHANGED <<parserErrCount, call, pc, exc>>
             [] OTHER ->
                  \* the exception leaves parse
                  /\ pc' = "idle"
                  /\ exc' = r.kind
                  /\ UNCHANGED <<parserErrCount, call, hist, parsedPackets>>
  /\ UNCHANGED <<schemeVars, packetRate, packetCount, startTime, parserErrRate,
                 ret, linkVars, reconfs, appVars>>

LoopIter == LoopStep(TRUE)

RateTrackerFirstUncounted(curTime) ==
  /\ curTime >= startTime
  /\ LET count == packetCount + Len(parsedPackets)
         timeDelta == curTime - startTime
     IN IF startTime = 0
          THEN /\ startTime' = curTime
               /\ UNCHANGED <<packetCount, packetRate, parserErrRate, parserErrCount, hist>>
          ELSE IF timeDelta > 1
                 THEN /\ packetRate' = Smooth(packetRate, count, timeDelta)
                      /\ packetCount' = 0
                      /\ parserErrRate' = Smooth(parserErrRate, parserErrCount, timeDelta)
                      /\ parserErrCount' = 0
                      /\ startTime' = curTime
                      /\ hist' = IF hist.on
                                   THEN [hist EXCEPT !.winFrames = 0, !.winErrs = 0]
                                   ELSE hist
                 ELSE /\ packetCount' = count
                      /\ UNCHANGED <<packetRate, parserErrRate, parserErrCount, startTime,
                                     hist>>

RateTrackerAtLeast(curTime) ==
  /\ curTime >= startTime
  /\ LET count == packetCount + Len(parsedPackets)
         timeDelta == curTime - startTime
     IN IF startTime = 0
          THEN /\ startTime' = curTime
               /\ packetCount' = count
               /\ UNCHANGED <<packetRate, parserErrRate, parserErrCount, hist>>
          ELSE IF timeDelta >= 1
                 THEN /\ packetRate' = Smooth(packetRate, count, timeDelta)
                      /\ packetCount' = 0
                      /\ parserErrRate' = Smooth(parserErrRate, parserErrCount, timeDelta)
                      /\ parserErrCount' = 0
                      /\ startTime' = curTime
                      /\ hist' = IF hist.on
                                   THEN [hist EXCEPT !.winFrames = 0, !.winErrs = 0]
                                   ELSE hist
                 ELSE /\ packetCount' = count
                      /\ UNCHANGED <<packetRate, parserErrRate, parserErrCount, startTime,
                                     hist>>

\* 127-140: the rate tracker with the clock reading curTime.  The clock is
\* monotonic, so curTime is not before the reading kept in startTime.
RateTracker(curTime) ==
  /\ curTime >= startTime
  /\ LET count == packetCount + Len(parsedPackets)
         timeDelta == curTime - startTime
     IN IF startTime = 0
          THEN /\ startTime' = curTime
               /\ packetCount' = count
               /\ UNCHANGED <<packetRate, parserErrRate, parserErrCount, hist>>
          ELSE IF timeDelta > 1
                 THEN /\ packetRate' = Smooth(packetRate, count, timeDelta)
                      /\ packetCount' = 0
                      /\ parserErrRate' = Smooth(parserErrRate, parserErrCount, timeDelta)
                      /\ parserErrCount' = 0
                      /\ startTime' = curTime
                      /\ hist' = IF hist.on
                                   THEN [hist EXCEPT !.winFrames = 0, !.winErrs = 0]
                                   ELSE hist
                 ELSE /\ packetCount' = count
                      /\ UNCHANGED <<packetRate, parserErrRate, parserErrCount, startTime,
                                     hist>>

ReturnAnytime ==
  /\ pc = "loop"
  /\ ret' = Transpose(parsedPackets)
  /\ pc' = "idle"
  /\ UNCHANGED <<buffer, schemeVars, parsedPackets, exc, linkVars, call, reconfs, appVars>>

\* 142-144 once the loop condition fails: the transpose and the return.
Return ==
  /\ pc = "loop"
  /\ ~LoopCond(buffer, packetSize)
  /\ ret' = Transpose(parsedPackets)
  /\ pc' = "idle"
  /\ UNCHANGED <<buffer, schemeVars, parsedPackets, exc, linkVars, call, reconfs, appVars>>

FinishBatchOnUpdate(curTime) ==
  /\ pc = "loop"
  /\ ~LoopCond(buffer, packetSize)
  /\ ret' = IF startTime # 0 /\ curTime - startTime > 1
              THEN <<>>
              ELSE Transpose(parsedPackets)
  /\ pc' = "idle"
  /\ UNCHANGED <<buffer, schemeVars, parsedPackets, exc, linkVars, call, reconfs, appVars>>
  /\ RateTracker(curTime)

\* 127-144: the end of a parse call.
Finish(curTime) == Return /\ RateTracker(curTime)

\* The loop of one parse call run to its end on buf under the active
\* scheme (93-125): the frames, the error increments and the rest.
RECURSIVE ParseLoop(_, _, _)
ParseLoop(buf, frames, errs) ==
  IF ~LoopCond(buf, packetSize)
    THEN [frames |-> frames, errs |-> errs, buf |-> buf, exc |-> "none"]
    ELSE LET r == Iterate(buf, startSequence, endSequence, headerSize, payloadSize,
                          packetSize, parserString)
         IN CASE r.kind = "drop" -> ParseLoop(r.buf, frames, errs + 1)
              [] r.kind = "frame" -> ParseLoop(r.buf, Append(frames, r.frame), errs)
              [] OTHER -> [frames |-> frames, errs |-> errs, buf |-> r.buf,
                           exc |-> r.kind]

\* The same loop on a decoder of the active scheme but for its decode
\* format fmt, from the buffer all, with buf of it left: the offsets in all
\* of the frames accepted, the frames, the error increments and the rest.
RECURSIVE FramingTrace(_, _, _, _, _, _)
FramingTrace(all, buf, fmt, pos, frames, errs) ==
  IF ~LoopCond(buf, packetSize)
    THEN [pos |-> pos, frames |-> frames, errs |-> errs, buf |-> buf, exc |-> "none"]
    ELSE LET r == Iterate(buf, startSequence, endSequence, headerSize, payloadSize,
                          packetSize, fmt)
         IN CASE r.kind = "drop" -> FramingTrace(all, r.buf, fmt, pos, frames, errs + 1)
              [] r.kind = "frame" ->
                   FramingTrace(all, r.buf, fmt, Append(pos, Len(all) - Len(buf)),
                                Append(frames, r.frame), errs)
              [] OTHER -> [pos |-> pos, frames |-> frames, errs |-> errs, buf |-> r.buf,
                           exc |-> r.kind]

\* One parse call on a decoder with an empty buffer.
ParseWhole(data) == ParseLoop(Extend(<<>>, data), <<>>, 0)

\* The derived fields agree with the explicit ones (61-73).
SchemeConsistent ==
  /\ PyIndexOk(lDataSize, dataType)
  /\ payloadSize = payloadSizeOf(numChannels, dataType)
  /\ headerSize = Len(startSequence)
  /\ packetSize = packetSizeOf(headerSize, payloadSize, endSequence)
  /\ parserString = parserStringOf(endianness, numChannels, dataType)

\* A session with the scheme the decoder was constructed with.
Next ==
  \/ \E n \in 0..Len(wire) : Parse(n)
  \/ LoopIter
  \/ \E t \in 1..MaxTime : Finish(t)

Spec == Init /\ [][Next]_vars

\* A session in which the user edits the parser options.
ReconfScenarios == {sc \in GenScenarios(SchemeA) : sc.prefix = <<>>}

\* The clock readings of such a session: one rate update is possible.
ReconfClock == {1, 3}

ReconfInit ==
  \E sc \in ReconfScenarios :
    /\ Constructed(sc.scheme)
    /\ tx = sc
    /\ wire = sc.prefix \o EncodeFrames(sc.scheme, sc.frames)
    /\ index = 0
    /\ hist = [on |-> TRUE, parsed |-> FALSE, stream |-> <<>>, frames |-> <<>>, errs |-> 0, winFrames |-> 0, winErrs |-> 0]
    /\ call = NoCall
    /\ gui = GuiConstructed(sc.scheme)
    /\ got = NoQuery
    /\ reconfs = 0

ReconfNext ==
  \/ \E n \in 0..Len(wire) : Parse(n)
  \/ LoopIter
  \/ \E t \in ReconfClock : Finish(t)
  \/ \E a \in ReconfArgs : SetParserScheme(a) /\ UNCHANGED appVars

ReconfSpec == ReconfInit /\ [][ReconfNext]_vars

(***************************************************************************)
(* A live link: the device sends its frames over and over (send.py 54-65), *)
(* the 60 Hz timer keeps polling (serialstudio.py 165-168).  The rate       *)
(* tracker, which decoding does not read, is left out here, so that the    *)
(* state stays finite over an endless stream; no history is recorded.      *)
(***************************************************************************)
\* send.py 60-65: pack the frame of the current sample, write it, advance
\* the index and wrap it at the number of samples.  The link holds at most
\* MaxLiveWire unread bytes.
Send ==
  /\ tx.frames # <<>>
  /\ LET bytes == EncodeFrame(tx.scheme, tx.frames[index + 1])
     IN /\ Len(wire) + Len(bytes) <= MaxLiveWire
        /\ wire' = wire \o bytes
  /\ index' = IF index + 1 = Len(tx.frames) THEN 0 ELSE index + 1
  /\ UNCHANGED <<buffer, schemeVars, rateVars, callVars, tx, hist, call, reconfs, appVars>>

LiveLoopIter == LoopStep(FALSE)
LiveFinish == Return /\ UNCHANGED <<rateVars, hist>>
LivePoll == \E n \in 0..Len(wire) : Parse(n)
LiveRead == \E n \in 1..Len(wire) : Parse(n)

\* A connection made in the middle of a frame starts with the rest of it.
RECURSIVE Suffixes(_)
Suffixes(s) == IF s = <<>> THEN {<<>>} ELSE {s} \cup Suffixes(Tail(s))

LivePrefixes(a) ==
  SeqsUpTo(GarbageBytes, MaxGarbage)
    \cup UNION {Suffixes(Tail(EncodeFrame(a, f))) : f \in FrameSamples(a)}

\* The device cycles through a non-empty table of distinct samples.
LiveCycles(a) ==
  {fs \in SeqsUpTo(FrameSamples(a), MaxFrames) \ {<<>>} :
     \A i, j \in 1..Len(fs) : fs[i] = fs[j] => i = j}

LiveScenariosOf(a) ==
  {Scenario(a, g, fs) : g \in LivePrefixes(a), fs \in LiveCycles(a)}

LiveScenarios == LiveScenariosOf(SchemeA) \cup LiveScenariosOf(SchemeL)

LiveInit ==
  \E sc \in LiveScenarios :
    /\ Constructed(sc.scheme)
    /\ tx = sc
    /\ wire = sc.prefix
    /\ index = 0
    /\ hist = [on |-> FALSE, parsed |-> FALSE, stream |-> <<>>, frames |-> <<>>,
               errs |-> 0, winFrames |-> 0, winErrs |-> 0]
    /\ call = NoCall
    /\ gui = GuiConstructed(sc.scheme)
    /\ got = NoQuery
    /\ reconfs = 0

LiveNext ==
  \/ Send
  \/ LivePoll
  \/ LiveLoopIter
  \/ LiveFinish

\* The device keeps sending while the link has room, a call in progress
\* runs on, and the timer fires again and again, so bytes on the link are
\* read sooner or later.
LiveSpec ==
  /\ LiveInit /\ [][LiveNext]_vars
  /\ WF_vars(Send)
  /\ WF_vars(LiveLoopIter)
  /\ WF_vars(LiveFinish)
  /\ SF_vars(LiveRead)

(***************************************************************************)
(* The queries of the parser (serialparser.py 75-87) and the application   *)
(* around it (serialstudio.py 426-476): a session in which the user edits  *)
(* the parser parameters and the application reads the rates.              *)
(***************************************************************************)
\* str(list) as its tokens: the brackets, the items (an integer in decimal,
\* the string 'XX' in quotes) and the separators.
RECURSIVE StrItems(_)
StrItems(lst) ==
  IF lst = <<>> THEN <<>>
  ELSE LET item == IF lst[1] = "XX" THEN "'XX'" ELSE lst[1]
       IN IF Len(lst) = 1 THEN <<item>> ELSE <<item, ", ">> \o StrItems(Tail(lst))

StrOfList(lst) == <<"[">> \o StrItems(lst) \o <<"]">>

\* 81-87, on the fields given; getSize raises for a tag out of range.
getExpectedOf(startSeq, nCh, dType, endSeq) ==
  IF ~PyIndexOk(lDataSize, dType)
    THEN [op |-> "getExpected", val |-> <<>>, exc |-> "IndexError"]
    ELSE LET explst == [i \in 1..Len(startSeq) |-> ToString(startSeq[i])]
                         \o [i \in 1..(nCh * getSize(dType)) |-> "XX"]
                         \o [i \in 1..Len(endSeq) |-> ToString(endSeq[i])]
         IN [op |-> "getExpected", val |-> StrOfList(explst), exc |-> "none"]

\* 78-79: parserErrRate // packetSize, a floor division.
getErrorRateOf(rate, pktSize) ==
  IF pktSize = 0
    THEN [op |-> "getErrorRate", val |-> <<>>, exc |-> "ZeroDivisionError"]
    ELSE [op |-> "getErrorRate", val |-> <<rate[1] \div (rate[2] * pktSize), 1>>,
          exc |-> "none"]

Query(result) ==
  /\ pc = "idle"
  /\ got' = result
  /\ UNCHANGED <<buffer, schemeVars, callVars, linkVars, hist, call, reconfs, gui>>

GetPacketRateClearing ==
  /\ Query([op |-> "getPacketRate", val |-> packetRate, exc |-> "none"])
  /\ packetRate' = <<0, 1>>
  /\ UNCHANGED <<packetCount, startTime, parserErrCount, parserErrRate>>

\* 75-76
GetPacketRate ==
  /\ Query([op |-> "getPacketRate", val |-> packetRate, exc |-> "none"])
  /\ UNCHANGED rateVars

\* 78-79
GetErrorRate == Query(getErrorRateOf(parserErrRate, packetSize)) /\ UNCHANGED rateVars

\* 81-87
GetExpected ==
  /\ Query(getExpectedOf(startSequence, numChannels, dataType, endSequence))
  /\ UNCHANGED rateVars

\* serialstudio.py 426-476: the handler writes the edited values into the
\* dictionary that self.parameters names (431-437), hands them to
\* setParserScheme (469-473) and, when that call returns, shows the
\* expected pattern (475).
ParamParserChanged(a) ==
  /\ SetParserScheme(a)
  /\ gui' = [gui EXCEPT !.heap[gui.parameters] = a]
  /\ got' = IF PyIndexOk(lDataSize, a.dataType)
              THEN getExpectedOf(a.start, a.numCh, a.dataType, a.end)
              ELSE got

\* serialstudio.py 352-354, 358-360: the marker shown as text, every byte
\* by format(byte, 'X') and a space; the text is kept as hexadecimal digits
\* and SPACE.
SPACE == 16

RECURSIVE FormatHex(_)
FormatHex(bs) ==
  IF bs = <<>>
    THEN <<>>
    ELSE (IF Head(bs) >= 16 THEN <<Head(bs) \div 16, Head(bs) % 16>> ELSE <<Head(bs)>>)
           \o <<SPACE>> \o FormatHex(Tail(bs))

\* serialstudio.py 431, 433: bytearray.fromhex takes pairs of digits, with
\* white space allowed between the pairs only.
RECURSIVE FromHex(_)
FromHex(s) ==
  IF s = <<>>
    THEN [ok |-> TRUE, val |-> <<>>]
    ELSE IF Head(s) = SPACE
      THEN FromHex(Tail(s))
      ELSE IF Len(s) < 2 \/ s[2] = SPACE
        THEN [ok |-> FALSE, val |-> <<>>]
        ELSE LET rest == FromHex(Tail(Tail(s)))
             IN [ok |-> rest.ok, val |-> <<16 * s[1] + s[2]>> \o rest.val]

\* The parser section of the configuration the application uses now.
LiveParameters == gui.heap[gui.parameters]

\* loadParameters (serialstudio.py 334-377) shows the parser section p in
\* the parameter tree, which showed the section shown.  When an option
\* shown changes, leaving the block at 350 signals paramParserChanged
\* (181), which reads the options back (429-437), p again but for the
\* markers, which it parses from the text, and sets the parser (469-475).
LoadParameters(p, shown) ==
  LET s == FromHex(FormatHex(p.start))
      e == FromHex(FormatHex(p.end))
      a == [p EXCEPT !.start = s.val, !.end = e.val]
  IN IF p = shown
       THEN UNCHANGED <<buffer, schemeVars, rateVars, callVars, linkVars, hist, call,
                        reconfs, got>>
       ELSE IF ~s.ok \/ ~e.ok
         THEN /\ got' = [op |-> "paramParserChanged", val |-> <<>>, exc |-> "ValueError"]
              /\ UNCHANGED <<buffer, schemeVars, rateVars, callVars, linkVars, hist, call,
                             reconfs>>
         ELSE /\ SetParserScheme(a)
              /\ got' = IF PyIndexOk(lDataSize, a.dataType)
                          THEN getExpectedOf(a.start, a.numCh, a.dataType, a.end)
                          ELSE got

\* restoreconfig, serialstudio.py 327-332.
RestoreConfig ==
  /\ pc = "idle"
  /\ gui' = [gui EXCEPT !.parameters = gui.defaultParams]
  /\ LoadParameters(gui.heap[gui.defaultParams], LiveParameters)

\* The parser sections a configuration file may hold.
LoadArgs == {SchemeRef, SchemeZ}

\* loadconfig, serialstudio.py 312-325, with a file that json.load reads as
\* a dictionary with the parser section a: a new object, here "file".
LoadConfig(a) ==
  /\ pc = "idle"
  /\ gui' = [gui EXCEPT !.parameters = "file",
                        !.heap = [r \in {"class", "file"} |->
                                    IF r = "file" THEN a ELSE gui.heap["class"]]]
  /\ LoadParameters(a, LiveParameters)

GuiScenarios == {sc \in ReconfScenarios : Len(sc.frames) = 1}

GuiInit ==
  \E sc \in GuiScenarios :
    /\ Constructed(sc.scheme)
    /\ tx = sc
    /\ wire = sc.prefix \o EncodeFrames(sc.scheme, sc.frames)
    /\ index = 0
    /\ hist = [on |-> TRUE, parsed |-> FALSE, stream |-> <<>>, frames |-> <<>>, errs |-> 0, winFrames |-> 0, winErrs |-> 0]
    /\ call = NoCall
    /\ gui = GuiConstructed(sc.scheme)
    /\ got = NoQuery
    /\ reconfs = 0

GuiNext ==
  \/ \E n \in 0..Len(wire) : Parse(n)
  \/ LoopIter
  \/ \E t \in ReconfClock : Finish(t)
  \/ \E a \in ReconfArgs : ParamParserChanged(a)
  \/ RestoreConfig
  \/ \E a \in LoadArgs : LoadConfig(a)
  \/ GetPacketRate
  \/ GetErrorRate
  \/ GetExpected

GuiSpec == GuiInit /\ [][GuiNext]_vars

(***************************************************************************)
(* A noisy link: the bytes on the wire are arbitrary, with no frame put    *)
(* there on purpose, and update_plot feeds them to parse as they come      *)
(* (serialstudio.py 559-577).                                              *)
(***************************************************************************)
MaxNoise == 4        \* most bytes on the noisy link
NoiseBytes == {0, 170, 187}

NoiseScenarios ==
  {Scenario(a, w, <<>>) : a \in {SchemeA, SchemeC, SchemeM},
                          w \in SeqsUpTo(NoiseBytes, MaxNoise)}

NoiseInit ==
  \E sc \in NoiseScenarios :
    /\ Constructed(sc.scheme)
    /\ tx = sc
    /\ wire = sc.prefix
    /\ index = 0
    /\ hist = [on |-> TRUE, parsed |-> FALSE, stream |-> <<>>, frames |-> <<>>, errs |-> 0, winFrames |-> 0, winErrs |-> 0]
    /\ call = NoCall
    /\ gui = GuiConstructed(sc.scheme)
    /\ got = NoQuery
    /\ reconfs = 0

NoiseSpec == NoiseInit /\ [][Next]_vars

(***************************************************************************)
(* Properties.                                                             *)
(***************************************************************************)
\* The loop of the last parse call has run to its end without an exception:
\* the call is at line 127, or has returned.
LoopDone ==
  /\ call.made
  /\ exc = "none"
  /\ \/ pc = "idle"
     \/ pc = "loop" /\ ~LoopCond(buffer, packetSize)

AtLoopExit == pc = "loop" /\ ~LoopCond(buffer, packetSize)

\* The values a device can put in a frame of the active layout, and the
\* sequences of at most k such frames.
FrameSeqs(k) == SeqsUpTo(FrameSamples(tx.scheme), k)

\* C1 (exact round trip): when one parse call on an empty buffer is given
\* the concatenation of K well-formed frames of a scheme with a positive
\* frame size, the loop decodes exactly those K frames in order with their
\* original values, makes no error increment (parserErrCount at the end of
\* the loop is what it was at entry) and leaves the buffer empty.
RoundTrip ==
  (LoopDone /\ packetSize > 0 /\ call.buf = <<>>) =>
    \A fs \in FrameSeqs(Len(call.data) \div packetSize) :
      call.data = EncodeFrames(tx.scheme, fs) =>
        /\ parsedPackets = fs
        /\ call.errs = 0
        /\ AtLoopExit => parserErrCount = call.errCount0
        /\ buffer = <<>>

RoundTripWitness ==
  /\ LoopDone /\ pc = "idle"
  /\ call.buf = <<>>
  /\ tx.prefix = <<>>
  /\ Len(tx.frames) >= 2
  /\ \E k \in 1..Len(tx.frames) : \E c \in 1..Len(tx.frames[k]) : tx.frames[k][c] < 0
  /\ call.data = EncodeFrames(tx.scheme, tx.frames)
  /\ parsedPackets = tx.frames

\* C2 (chunking invariance): under a fixed scheme with a positive frame
\* size, whatever the chunks in which a byte stream was fed, the frames
\* decoded over all calls, the error increments over all calls and the
\* bytes left in the buffer are those of one parse call given the whole
\* stream.
ChunkingInvariance ==
  (LoopDone /\ packetSize > 0 /\ reconfs = 0) =>
    LET w == ParseWhole(hist.stream)
    IN /\ hist.frames = w.frames
       /\ hist.errs = w.errs
       /\ buffer = w.buf

ChunkingWitness ==
  /\ LoopDone /\ pc = "idle"
  /\ reconfs = 0
  /\ call.buf # <<>>
  /\ call.data # <<>>
  /\ Len(hist.stream) > Len(call.buf) + Len(call.data)
  /\ parsedPackets # <<>>
  /\ call.errs > 0
  /\ buffer # <<>>

\* C3 (partial-frame retention): a parse call on an empty buffer given the
\* first frameSize - 1 bytes of a valid frame decodes nothing, returns an
\* empty batch, makes no error increment and keeps those bytes; the call
\* that then feeds the last byte decodes exactly that frame and leaves
\* the buffer empty.
PartialFrameRetention ==
  (LoopDone /\ packetSize > 0) =>
    \A f \in FrameSamples(tx.scheme) :
      LET bytes == EncodeFrame(tx.scheme, f)
          most == SubSeq(bytes, 1, Len(bytes) - 1)
      IN /\ (call.buf = <<>> /\ call.data = most) =>
              /\ parsedPackets = <<>>
              /\ pc = "idle" => ret = <<>>
              /\ call.errs = 0
              /\ buffer = most
         /\ (call.buf = most /\ call.data = <<bytes[Len(bytes)]>>) =>
              /\ parsedPackets = <<f>>
              /\ call.errs = 0
              /\ buffer = <<>>

PartialFrameWitness ==
  /\ LoopDone /\ pc = "idle"
  /\ tx.scheme = SchemeRef
  /\ Len(call.buf) = 13
  /\ call.buf \o call.data = EncodeFrame(SchemeRef, <<-1, 1, 100>>)
  /\ ret = <<<<-1>>, <<1>>, <<100>>>>
  /\ buffer = <<>>

\* The start marker matches at offset o of the bytes.
StartMatchesAt(bytes, o) == MarkerCheck(PySliceFrom(bytes, o), startSequence, 0) = "match"

\* C4 (garbage-prefix resynchronisation): a parse call on an empty buffer
\* given G bytes followed by one valid frame, the start marker matching at
\* none of the first G offsets, makes exactly G error increments
\* (parserErrCount at the end of the loop is its value at entry plus G) and
\* decodes exactly the trailing frame with its original values.
GarbagePrefixResync ==
  (LoopDone /\ packetSize > 0 /\ call.buf = <<>> /\ Len(call.data) >= packetSize) =>
    \A f \in FrameSamples(tx.scheme) :
      LET G == Len(call.data) - packetSize
      IN (/\ PySliceFrom(call.data, G) = EncodeFrame(tx.scheme, f)
          /\ \A o \in 0..(G - 1) : ~StartMatchesAt(call.data, o)) =>
           /\ call.errs = G
           /\ AtLoopExit => parserErrCount = call.errCount0 + G
           /\ parsedPackets = <<f>>
           /\ pc = "idle" => ret = Transpose(<<f>>)
           /\ buffer = <<>>

GarbagePrefixWitness ==
  /\ LoopDone /\ pc = "idle"
  /\ call.buf = <<>>
  /\ call.data = <<0>> \o EncodeFrame(SchemeRef, <<-1, 1, 100>>)
  /\ Len(call.data) = 15
  /\ call.errs = 1
  /\ ret = <<<<-1>>, <<1>>, <<100>>>>

\* C10 (channel transpose): when a parse call has decoded frames f1..fn,
\* n >= 1, of a scheme with at least one channel, the batch it returns has
\* one sequence per channel and element c is <<f1[c], ..., fn[c]>>; the
\* frames (-1, 1, 100) and (2, -2, 200) give
\* <<<<-1, 2>>, <<1, -2>>, <<100, 200>>>>.
ChannelTranspose ==
  (LoopDone /\ pc = "idle" /\ parsedPackets # <<>> /\ numChannels >= 1) =>
    /\ Len(ret) = numChannels
    /\ \A c \in 1..numChannels :
         /\ Len(ret[c]) = Len(parsedPackets)
         /\ \A k \in 1..Len(parsedPackets) : ret[c][k] = parsedPackets[k][c]
    /\ parsedPackets = <<<<-1, 1, 100>>, <<2, -2, 200>>>> =>
         ret = <<<<-1, 2>>, <<1, -2>>, <<100, 200>>>>

ChannelTransposeWitness ==
  /\ LoopDone /\ pc = "idle"
  /\ call.data = EncodeFrames(SchemeRef, <<<<-1, 1, 100>>, <<2, -2, 200>>>>)
  /\ ret = <<<<-1, 2>>, <<1, -2>>, <<100, 200>>>>

\* C6 (parse always returns): under every scheme the constructor accepts,
\* the loop of a parse call ends after finitely many iterations: every
\* iteration drops a byte or decodes a frame, and a call never makes more
\* iterations than it has bytes to consume.
ParseAlwaysReturns ==
  (call.made /\ exc = "none") =>
    call.errs + Len(parsedPackets) <= Len(call.buf) + Len(call.data)

\* C7 (positive frame size): every scheme that is active in the decoder
\* has packetSize > 0, so parse never runs with packetSize = 0.
FrameSizePositive == packetSize > 0

\* C8 (failed reconfiguration is atomic): a setParserScheme call with a
\* data-type tag outside 0..9 fails with an error and leaves every field
\* of the scheme as it was.
FailedReconfAtomic ==
  [][\A a \in ReconfArgs :
       (a.dataType \notin 0..9 /\ SetParserScheme(a)) =>
         (exc' # "none" /\ schemeVars' = schemeVars)]_vars

\* C9 (reconfiguration keeps the pending bytes): setParserScheme leaves
\* the buffer as it is, and the parse calls that follow, also one that
\* feeds no byte, run the new scheme over the bytes that were pending
\* followed by the bytes fed since: what they decode, count and leave is
\* what one call under the new scheme makes of that stream.
ReconfKeepsPending ==
  /\ [][(\E a \in ReconfArgs : SetParserScheme(a)) => buffer' = buffer]_vars
  /\ [](  (LoopDone /\ reconfs > 0 /\ hist.parsed /\ SchemeConsistent
             /\ packetSize > 0) =>
            LET w == ParseWhole(hist.stream)
            IN /\ hist.frames = w.frames
               /\ hist.errs = w.errs
               /\ buffer = w.buf )

ReconfKeepsPendingWitness ==
  /\ LoopDone /\ pc = "idle"
  /\ reconfs > 0
  /\ SchemeConsistent
  /\ call.data = <<>>
  /\ call.buf # <<>>
  /\ hist.stream = call.buf
  /\ parsedPackets # <<>>
  /\ call.errs > 0

\* The current call has made no error increment and every frame it has
\* decoded is one the device sent.
Aligned ==
  /\ call.errs = 0
  /\ \A k \in 1..Len(parsedPackets) :
       \E j \in 1..Len(tx.frames) : parsedPackets[k] = tx.frames[j]

\* C5 (eventual resynchronisation), as claimed: whatever bytes precede
\* them, once the link carries only back-to-back well-formed frames the
\* decoder ends up aligned: from some point on no call makes an error
\* increment and every frame decoded is one the device sent.
EventualResync == <>[]Aligned

\* The stream of a live link, far enough to see every offset class: the
\* prefix and three rounds of the device's frames.
LiveStream ==
  LET round == EncodeFrames(tx.scheme, tx.frames)
  IN tx.prefix \o round \o round \o round

IsFrameStart(o) ==
  o >= Len(tx.prefix) /\ (o - Len(tx.prefix)) % packetSize = 0

\* Both markers match at offset o of the stream: a candidate frame.
CandidateAt(bytes, o) ==
  /\ MarkerCheck(PySliceFrom(bytes, o), startSequence, 0) = "match"
  /\ MarkerCheck(PySliceFrom(bytes, o), endSequence, headerSize + payloadSize) = "match"

NoFalseCandidate ==
  \A o \in 0..(Len(tx.prefix) + Len(EncodeFrames(tx.scheme, tx.frames)) - 1) :
    CandidateAt(LiveStream, o) => IsFrameStart(o)

\* C5 (eventual resynchronisation), as amended: when the two markers match together at no offset of the
\* stream other than the start of a frame the device sent, the decoder
\* ends up aligned.
EventualResyncAmended == NoFalseCandidate => <>[]Aligned

EventualResyncWitness ==
  /\ NoFalseCandidate
  /\ tx.prefix # <<>>
  /\ wire # <<>>
  /\ pc = "idle"
  /\ call.made /\ call.errs = 0 /\ call.buf # <<>>
  /\ Len(parsedPackets) >= 1
  /\ Aligned

\* The last parse call has returned normally.
Returned == call.made /\ pc = "idle" /\ exc = "none"

\* C11 (batch shape), as claimed: the batch every parse call returns has
\* exactly numChannels column sequences, each with one value per frame
\* decoded in the call, also when the call decoded no frame.
BatchShape ==
  Returned =>
    /\ Len(ret) = numChannels
    /\ \A c \in 1..Len(ret) : Len(ret[c]) = Len(parsedPackets)

\* C11 (batch shape), as amended: a call that decoded at least one frame
\* returns numChannels column sequences with one value per decoded frame;
\* a call that decoded no frame returns the empty sequence, whatever the
\* channel count.
BatchShapeAmended ==
  Returned =>
    IF parsedPackets = <<>>
      THEN ret = <<>>
      ELSE /\ Len(ret) = numChannels
           /\ \A c \in 1..Len(ret) : Len(ret[c]) = Len(parsedPackets)

BatchShapeWitness ==
  /\ Returned
  /\ numChannels = 3
  /\ Len(call.data) = packetSize - 1
  /\ parsedPackets = <<>>
  /\ ret = <<>>

\* C12 (malformed input is safe): under a consistent scheme with a positive
\* frame size, whatever bytes parse is fed, no call raises an exception:
\* every loop iteration either drops one byte or decodes a frame, never
\* reads past the end of the buffer and never fails to unpack; and bytes
\* among which the start marker matches nowhere are only dropped, one error
\* increment each, until fewer than packetSize remain.
MalformedInputSafe ==
  (SchemeConsistent /\ packetSize > 0) =>
    /\ exc = "none"
    /\ (pc = "loop" /\ LoopCond(buffer, packetSize)) =>
         /\ IterateNow.kind \in {"drop", "frame"}
         /\ Len(IterateNow.buf) < Len(buffer)
    /\ (LoopDone /\ \A o \in 0..(Len(call.buf \o call.data) - 1) :
                      ~StartMatchesAt(call.buf \o call.data, o)) =>
         /\ parsedPackets = <<>>
         /\ Len(buffer) < packetSize
         /\ call.errs = Len(call.buf) + Len(call.data) - Len(buffer)

MalformedInputWitness ==
  /\ Returned
  /\ tx.frames = <<>>
  /\ call.data = <<0, 187, 187, 0>>
  /\ parsedPackets = <<>>
  /\ call.errs = 2
  /\ buffer = <<187, 0>>

\* new = old * 0.3 + (count / elapsed) * 0.7, as an equation between
\* fractions <<numerator, denominator>>, cleared of its denominators.
IsSmoothed(new, old, count, elapsed) ==
  new[1] * 10 * old[2] * elapsed = new[2] * (3 * old[1] * elapsed + 7 * count * old[2])

\* C13 (rate smoothing): the end of the first parse call after construction
\* (startTime still 0) records the clock reading as the window start and
\* leaves packetRate and parserErrRate as they were; the end of a later
\* call at a clock reading more than 1 second after the window start sets
\* packetRate to packetRate * 0.3 + (packetCount / elapsed) * 0.7, with
\* packetCount counting this call's frames too, and parserErrRate to
\* parserErrRate * 0.3 + (parserErrCount / elapsed) * 0.7; 20 frames in 2
\* seconds give packetRate * 0.3 + 10 * 0.7.
RateSmoothing ==
  [][\A t \in 1..MaxTime :
       Finish(t) =>
         /\ startTime = 0 =>
              /\ startTime' = t
              /\ packetRate' = packetRate
              /\ parserErrRate' = parserErrRate
         /\ (startTime # 0 /\ t - startTime > 1) =>
              /\ IsSmoothed(packetRate', packetRate,
                            packetCount + Len(parsedPackets), t - startTime)
              /\ IsSmoothed(parserErrRate', parserErrRate, parserErrCount,
                            t - startTime)
              /\ LET r == Smooth(packetRate, 20, 2)
                 IN r[1] * 10 * packetRate[2] = r[2] * (3 * packetRate[1] + 7 * 10 * packetRate[2])
    ]_vars

\* One frame counted over a window of 2 seconds, from rate 0: 0.35.
RateSmoothingWitness ==
  /\ Returned
  /\ packetRate = <<7, 20>>
  /\ parserErrRate = <<7, 20>>
  /\ startTime = 3

\* C14 (empty end marker): under a consistent scheme whose end marker is
\* empty, in every loop iteration the end-marker check accepts; the
\* iteration makes an error increment exactly when the start marker does
\* not match at the head of the buffer, and decodes a frame whenever it
\* does.
EmptyEndMarker ==
  (SchemeConsistent /\ endSequence = <<>> /\ pc = "loop" /\ LoopCond(buffer, packetSize)) =>
    /\ MarkerCheck(buffer, endSequence, headerSize + payloadSize) = "match"
    /\ IterateNow.kind = "drop" <=> MarkerCheck(buffer, startSequence, 0) = "mismatch"
    /\ IterateNow.kind = "frame" <=> MarkerCheck(buffer, startSequence, 0) = "match"

EmptyEndMarkerWitness ==
  /\ Returned
  /\ endSequence = <<>>
  /\ call.data = <<0, 170, 187, 0>>
  /\ call.errs = 1
  /\ Len(parsedPackets) = 1
  /\ buffer = <<>>

\* C15 (start-marker mismatch step): with at least packetSize bytes
\* buffered under a consistent scheme and the first headerSize bytes
\* differing from the start marker in some position, one loop iteration
\* removes exactly the first byte of the buffer, adds exactly 1 to
\* parserErrCount, decodes no frame and stays in the loop.
StartMismatchStep ==
  [][(/\ pc = "loop"
      /\ LoopCond(buffer, packetSize)
      /\ SchemeConsistent
      /\ PySlice(buffer, 0, headerSize) # startSequence) =>
       /\ buffer' = Tail(buffer)
       /\ parserErrCount' = parserErrCount + 1
       /\ parsedPackets' = parsedPackets
       /\ pc' = "loop"
       /\ exc' = "none"
    ]_vars

\* The first byte of a two-byte start marker matched, the second did not.
StartMismatchWitness ==
  /\ Returned
  /\ startSequence = <<170, 187>>
  /\ call.data = <<170, 0, 170, 187>>
  /\ call.errs = 2
  /\ parsedPackets = <<>>
  /\ buffer = <<170, 187>>

\* C16 (end-marker mismatch step): with at least packetSize bytes buffered
\* under a consistent scheme, the start marker matching at the head and the
\* bytes at offset headerSize + payloadSize differing from the end marker,
\* one loop iteration removes only the first byte, adds exactly 1 to
\* parserErrCount and decodes no frame; so when a call on an empty buffer
\* is given such a rejected candidate with a valid frame starting G bytes
\* into it (and no candidate before), it makes G error increments and
\* decodes that frame.
EndMismatchStep ==
  /\ [][(/\ pc = "loop"
         /\ LoopCond(buffer, packetSize)
         /\ SchemeConsistent
         /\ PySlice(buffer, 0, headerSize) = startSequence
         /\ PySlice(buffer, headerSize + payloadSize, packetSize) # endSequence) =>
          /\ buffer' = Tail(buffer)
          /\ parserErrCount' = parserErrCount + 1
          /\ parsedPackets' = parsedPackets
          /\ pc' = "loop"
          /\ exc' = "none"
       ]_vars
  /\ [](LET G == Len(call.data) - packetSize
            rest == PySliceFrom(call.data, G)
        IN (/\ LoopDone /\ SchemeConsistent
            /\ call.buf = <<>>
            /\ G \in 1..(packetSize - 1)
            /\ StartMatchesAt(call.data, 0)
            /\ ~CandidateAt(call.data, 0)
            /\ \A o \in 1..(G - 1) : ~CandidateAt(call.data, o)
            /\ CandidateAt(call.data, G)) =>
             /\ call.errs = G
             /\ parsedPackets = <<unpack(parserString, ByteRange(rest, headerSize, payloadSize))>>
             /\ buffer = <<>>)

\* AA AA AA BB under start AA, one INT8 channel, end BB: the candidate
\* AA AA AA is rejected and the frame AA AA BB inside it is decoded.
EndMismatchWitness ==
  /\ Returned
  /\ endSequence = <<187>>
  /\ call.data = <<170, 170, 170, 187>>
  /\ call.errs = 1
  /\ parsedPackets = <<<<-86>>>>
  /\ buffer = <<>>

\* C17 (byte conservation): all through a parse call that raises no
\* exception, the bytes buffered before the call plus the bytes fed equal
\* in number the bytes buffered now plus the error increments of the call
\* plus packetSize times the frames decoded in the call, and the buffer is
\* a suffix of the old buffer followed by the fed bytes; a loop iteration
\* that decodes a frame shortens the buffer by exactly packetSize, one that
\* makes an error increment by exactly one byte.
ByteConservation ==
  /\ []((call.made /\ exc = "none") =>
          LET all == call.buf \o call.data
          IN /\ Len(all) = Len(buffer) + call.errs + Len(parsedPackets) * packetSize
             /\ buffer = PySliceFrom(all, Len(all) - Len(buffer)))
  /\ [][/\ Len(parsedPackets') = Len(parsedPackets) + 1 =>
             buffer' = PySliceFrom(buffer, packetSize)
        /\ parserErrCount' = parserErrCount + 1 =>
             buffer' = PySliceFrom(buffer, 1)
       ]_vars

ByteConservationWitness ==
  /\ Returned
  /\ call.buf # <<>>
  /\ call.errs >= 1
  /\ Len(parsedPackets) >= 1
  /\ buffer # <<>>

\* C18 (nothing decodable left pending): when a parse call has returned
\* and the scheme has not been set again since, fewer than packetSize bytes
\* are buffered; between calls the buffer can come to hold packetSize
\* bytes or more only by a step that makes packetSize smaller.
BufferBelowFrameSize ==
  /\ []((Returned /\ hist.parsed) => Len(buffer) < packetSize)
  /\ [][(/\ pc = "idle" /\ pc' = "idle"
         /\ Len(buffer) < packetSize
         /\ Len(buffer') >= packetSize') => packetSize' < packetSize
       ]_vars

BufferBelowFrameSizeWitness ==
  /\ Returned /\ hist.parsed
  /\ Len(parsedPackets) >= 1
  /\ Len(buffer) = packetSize - 1
  /\ Len(buffer) >= 2

\* What the end of a parse call at clock reading t does to the rate
\* tracker when the window start is startTime: an update exactly when more
\* than 1 second has elapsed.
CadenceStep(t) ==
  /\ (packetRate' # packetRate \/ parserErrRate' # parserErrRate) => t - startTime > 1
  /\ t - startTime > 1 =>
       /\ packetCount' = 0
       /\ parserErrCount' = 0
       /\ startTime' = t
  /\ ~(t - startTime > 1) =>
       /\ packetRate' = packetRate
       /\ parserErrRate' = parserErrRate
       /\ startTime' = startTime
       /\ packetCount' >= packetCount
       /\ parserErrCount' >= parserErrCount

RatesOnlyAtEndOfCall ==
  (\A t \in 1..MaxTime : ~Finish(t)) =>
    UNCHANGED <<packetRate, parserErrRate, startTime, packetCount>>

\* C19 (rate update cadence), as claimed: the rates change only at the end
\* of a parse call where more than 1 second has elapsed since the window
\* start; that call resets packetCount and parserErrCount to 0 and sets
\* the window start to the clock reading; every other call leaves the
\* rates and the window start unchanged and lets the counters only grow.
RateCadence ==
  [][/\ \A t \in 1..MaxTime : Finish(t) => CadenceStep(t)
     /\ RatesOnlyAtEndOfCall
    ]_vars

\* C19 (rate update cadence), as amended: the first parse call after
\* construction, which finds no window start (startTime = 0), sets the
\* window start to the clock reading, leaves the rates unchanged and
\* resets no counter; every later call behaves as claimed, so that two
\* consecutive rate updates are more than 1 second apart.
RateCadenceAmended ==
  [][/\ \A t \in 1..MaxTime :
          Finish(t) =>
            IF startTime = 0
              THEN /\ startTime' = t
                   /\ packetRate' = packetRate
                   /\ parserErrRate' = parserErrRate
                   /\ packetCount' = packetCount + Len(parsedPackets)
                   /\ parserErrCount' = parserErrCount
              ELSE CadenceStep(t)
     /\ RatesOnlyAtEndOfCall
     /\ (startTime # 0 /\ startTime' # startTime) => startTime' - startTime > 1
    ]_vars

\* An update at reading 3 of a window started at 1, then a call within
\* the new window that only counts.
RateCadenceWitness ==
  /\ Returned
  /\ packetRate = <<7, 20>>
  /\ startTime = 3
  /\ packetCount = 1

\* C20 (window counters are exact): between parse calls, packetCount is
\* the number of frames decoded, and parserErrCount the number of bytes
\* dropped, by all the calls since the last rate update, or since
\* construction when no update has happened, the first call included.
WindowCountersExact ==
  (pc = "idle" /\ exc = "none") =>
    /\ packetCount = hist.winFrames
    /\ parserErrCount = hist.winErrs

\* A rate update that counted one dropped byte, then a call that dropped
\* one byte and decoded one frame.
WindowCountersWitness ==
  /\ Returned
  /\ parserErrRate = <<7, 20>>
  /\ packetRate = <<0, 1>>
  /\ hist.winFrames = 1
  /\ hist.winErrs = 1
  /\ packetCount = 1
  /\ parserErrCount = 1

\* C21 (only parse mutates the data state): a step that changes the
\* buffer, a rate, a window counter or the window start belongs to a parse
\* call; getPacketRate, getErrorRate and getExpected change no field of
\* the parser; setParserScheme changes at most the scheme fields.
OnlyParseMutates ==
  [][/\ (buffer' # buffer \/ rateVars' # rateVars) => (pc = "loop" \/ pc' = "loop")
     /\ (GetPacketRate \/ GetErrorRate \/ GetExpected) =>
          UNCHANGED <<buffer, schemeVars, rateVars>>
     /\ (\E a \in ReconfArgs : SetParserScheme(a)) => UNCHANGED <<buffer, rateVars>>
    ]_vars

\* The packet rate has been read, non-zero, with bytes pending and counters
\* running, after a reconfiguration.
OnlyParseMutatesWitness ==
  /\ got.op = "getPacketRate"
  /\ got.val = <<7, 20>>
  /\ packetRate = <<7, 20>>
  /\ reconfs >= 1
  /\ buffer # <<>>

\* The derived fields and the decode format agree with the explicit
\* fields; the widths and format characters of the tags 0..9 are those of
\* the type catalog.
DerivedAgree ==
  /\ dataType \in 0..9 => payloadSize = numChannels * lDataSize[dataType + 1]
  /\ headerSize = Len(startSequence)
  /\ packetSize = headerSize + payloadSize + Len(endSequence)
  /\ Len(parserString) = numChannels + 1
  /\ parserString[1] = (IF endianness = LITTLE THEN "<" ELSE ">")
  /\ \A i \in 2..Len(parserString) :
       /\ parserString[i] = parserString[2]
       /\ dataType \in 0..9 => parserString[i] = lTypeChar[dataType + 1]
  /\ calcsize(parserString) = payloadSize
  /\ (startSequence = <<170, 187>> /\ endSequence = <<>> /\ numChannels = 3
        /\ dataType = INT32) => packetSize = 14

\* C22 (scheme consistency): after construction, and after every
\* setParserScheme call that raises nothing, payloadSize is numChannels
\* times the width of the data type, headerSize the length of the start
\* marker, packetSize the sum of headerSize, payloadSize and the length of
\* the end marker, and the decode format names the configured byte order
\* and numChannels values of the configured type, payloadSize bytes in
\* all; start AA BB, no end marker, 3 channels of INT32 give packetSize 14.
SchemeConsistency ==
  /\ DerivedAgree
  /\ [][\A a \in ReconfArgs :
          (SetParserScheme(a) /\ exc' = "none") => DerivedAgree'
       ]_vars

SchemeConsistencyWitness ==
  /\ reconfs = 1
  /\ exc = "none"
  /\ startSequence = <<170, 187>> /\ numChannels = 3 /\ dataType = INT32
  /\ parserString = <<"<", "l", "l", "l">>
  /\ packetSize = 14
  /\ buffer # <<>>

\* The parse call in progress as made by this decoder and by a decoder
\* that differs from it in the endianness setting only and held the same
\* buffer before the call.
CallBytes == call.buf \o call.data
OtherEndianness == IF endianness = LITTLE THEN BIG ELSE LITTLE
MineTrace == FramingTrace(CallBytes, CallBytes, parserString, <<>>, <<>>, 0)
TwinTrace ==
  FramingTrace(CallBytes, CallBytes,
               parserStringOf(OtherEndianness, numChannels, dataType), <<>>, <<>>, 0)

\* C23 (framing is independent of endianness): two decoders that differ
\* only in the endianness setting and are given the same bytes accept
\* frames at the same positions, make the same error increments and keep
\* the same buffer in every call; each frame of the one holds the values
\* the other decodes from the same payload bytes in the opposite byte
\* order.
EndiannessIndependent ==
  (LoopDone /\ packetSize > 0 /\ SchemeConsistent) =>
    /\ MineTrace.frames = parsedPackets
    /\ MineTrace.errs = call.errs
    /\ MineTrace.buf = buffer
    /\ TwinTrace.exc = "none"
    /\ TwinTrace.pos = MineTrace.pos
    /\ TwinTrace.errs = MineTrace.errs
    /\ TwinTrace.buf = MineTrace.buf
    /\ \A k \in 1..Len(MineTrace.pos) :
         LET payload == PySlice(CallBytes, MineTrace.pos[k] + headerSize,
                                MineTrace.pos[k] + headerSize + payloadSize)
         IN /\ MineTrace.frames[k] = unpack(parserString, payload)
            /\ TwinTrace.frames[k] =
                 unpack(parserStringOf(OtherEndianness, numChannels, dataType), payload)

\* One garbage byte and the bytes AA BB 00 under start AA, one big-endian
\* INT16 channel: the little-endian twin accepts the same frame and reads
\* 187 where this decoder reads -17664.
EndiannessWitness ==
  /\ Returned
  /\ dataType = INT16 /\ endianness = BIG
  /\ call.data = <<0, 170, 187, 0>>
  /\ call.errs = 1
  /\ parsedPackets = <<<<-17664>>>>
  /\ TwinTrace.pos = <<1>>
  /\ TwinTrace.frames = <<<<187>>>>

\* C24 (error rate normalisation): getErrorRate returns parserErrRate
\* divided by the packetSize of the active scheme, and returns a value,
\* without raising, under every scheme the decoder holds.
ErrorRateNormalised ==
  [][GetErrorRate =>
       /\ got'.exc = "none"
       /\ got'.val[1] * packetSize * parserErrRate[2] = parserErrRate[1] * got'.val[2]
    ]_vars

\* C25 (zero-channel scheme): under a scheme with no channel and a
\* non-empty start marker, a loop iteration at a buffer position where the
\* start marker and the end marker match decodes one frame without values
\* and removes Len(startSequence) + Len(endSequence) bytes; the end of the
\* call adds the frames of the call to packetCount, unless it is a rate
\* update, which resets it.
ZeroChannelFrames ==
  [][(numChannels = 0 /\ startSequence # <<>>) =>
       /\ (pc = "loop" /\ LoopCond(buffer, packetSize) /\ CandidateAt(buffer, 0)) =>
            /\ parsedPackets' = Append(parsedPackets, <<>>)
            /\ buffer' = PySliceFrom(buffer, Len(startSequence) + Len(endSequence))
            /\ parserErrCount' = parserErrCount
            /\ exc' = "none"
       /\ \A t \in 1..MaxTime :
            Finish(t) =>
              \/ packetCount' = packetCount + Len(parsedPackets)
              \/ startTime # 0 /\ t - startTime > 1 /\ packetCount' = 0
    ]_vars

\* Two matches and one dropped byte in one call, counted.
ZeroChannelWitness ==
  /\ Returned
  /\ numChannels = 0
  /\ startSequence = <<170>>
  /\ call.data = <<170, 0, 170>>
  /\ parsedPackets = <<<<>>, <<>>>>
  /\ call.errs = 1
  /\ packetCount = 2
  /\ buffer = <<>>

\* C26 (decoding is independent of time): whatever the clock reads at the
\* end of a parse call, the batch returned and the buffer left are those
\* the framing loop makes of the buffer at the call and the chunk given,
\* under the active scheme, with no clock involved; so two decoders of one
\* scheme given the same chunks agree on them after every call.  The clock
\* reading changes nothing but packetRate, parserErrRate, packetCount,
\* parserErrCount and startTime.
DecodingTimeIndependent ==
  [][\A t \in 1..MaxTime :
       (Finish(t) /\ SchemeConsistent /\ packetSize > 0) =>
         /\ ret' = Transpose(MineTrace.frames)
         /\ buffer' = MineTrace.buf
         /\ parsedPackets = MineTrace.frames
         /\ UNCHANGED <<buffer, schemeVars, parsedPackets, exc, linkVars>>
    ]_vars

\* A call that returned a batch and whose clock reading closed a rate
\* window: the rates are updated, the counters reset, the window restarted
\* at the last reading.
DecodingTimeWitness ==
  /\ Returned
  /\ call.buf # <<>>
  /\ ret # <<>>
  /\ buffer # <<>>
  /\ startTime = MaxTime
  /\ packetCount = 0
  /\ packetRate[1] > 0

\* C27 (restore defaults): restoreconfig leaves the live parser parameters
\* at the values the class body gave them, whatever edits were made before;
\* the default configuration is an object other than the live one and
\* always holds those values.
RestoreDefaults ==
  [][/\ RestoreConfig => gui'.heap[gui'.parameters] = gui.builtin
     /\ gui'.parameters # gui'.defaultParams
     /\ gui'.heap[gui'.defaultParams] = gui.builtin
    ]_vars

\* The items of a list printed by str.
Entries(text) == SelectSeq(text, LAMBDA tok : tok \notin {"[", "]", ", "})

\* C28 (expected-pattern description): getExpected returns the list of the
\* start marker bytes, then payloadSize placeholders 'XX', then the end
\* marker bytes, so the number of its entries is packetSize, the frame
\* size of the active scheme, in every state in which it is called.
ExpectedPattern ==
  [][GetExpected =>
       /\ got'.exc = "none"
       /\ Entries(got'.val) =
            [i \in 1..Len(startSequence) |-> ToString(startSequence[i])]
              \o [i \in 1..payloadSize |-> "'XX'"]
              \o [i \in 1..Len(endSequence) |-> ToString(endSequence[i])]
       /\ Len(Entries(got'.val)) = packetSize
    ]_vars

\* The same for the calls that return: the only calls that do not are those
\* made after a setParserScheme that failed.
ExpectedPatternWhenReturned ==
  [][GetExpected =>
       \/ /\ got'.exc = "none"
          /\ Len(Entries(got'.val)) = packetSize
          /\ SchemeConsistent
       \/ /\ got'.exc = "IndexError"
          /\ ~PyIndexOk(lDataSize, dataType)
          /\ reconfs > 0
    ]_vars
====
